---------------------------- MODULE Spec2Model ----------------------------
(***************************************************************************)
(* The resumable recursive crawler of notion-rag: NotionPuller             *)
(* (notion_rag/api/puller.py), its progress store PullState                *)
(* (notion_rag/utils/persistence.py) and the retry wrapper of              *)
(* NotionAPIClient (notion_rag/api/client.py).                             *)
(*                                                                         *)
(* Spec      : the crawler.  The recursion of _pull_entity_recursive is an *)
(*             explicit call stack; one action per step of the code.  A    *)
(*             remote call is one step that returns or raises (the retry   *)
(*             wrapper has given up).  The process may be interrupted at   *)
(*             any step; a new process then loads the state file.          *)
(* SpecRetry : NotionAPIClient._retry_with_backoff alone, attempt by       *)
(*             attempt, for every small configuration.                     *)
(***************************************************************************)
EXTENDS Integers, Sequences, FiniteSets, TLC

VARIABLES
    world,      \* index of the remote workspace being crawled
    state,      \* PullState in memory: completed_entities, failed_entities
    file,       \* pull_state.json on disk
    persisted,  \* the states the last two completed save_state calls wrote, latest first
    saving,     \* save_state has opened (truncated) the file and not yet written it
    stack,      \* call stack of _pull_entity_recursive frames, innermost first
    queue,      \* pull_failed_entities_only: failed ids still to be retried
    op,         \* the NotionPuller method in progress, or "idle"
    log,        \* what the current (or last) method did: calls, writes, marks
    files,      \* snapshot files under raw/
    downloads,  \* attachment files under raw/
    returned,   \* per id: how the last returned _pull_entity_recursive call ended
    cur,        \* the method in progress or last run: how it ended, the state it began and ended with
    prev,       \* the method run before that one
    budget,     \* counters of the bounded environment: methods called, faults injected
    retry,      \* the state of one _retry_with_backoff call (SpecRetry)
    store,      \* one PullState object and its state file, called directly (SpecStore)
    writers     \* two PullState objects over one state file (SpecWriters)

cvars == <<world, state, file, persisted, saving, stack, queue, op, log, files, downloads,
           returned, cur, prev, budget>>
vars == <<cvars, retry, store, writers>>

----------------------------------------------------------------------------
(* Bounds of the model.                                                    *)

MaxOps == 3
MaxFaults == 2
MaxRetriesBound == 4
MaxDelay == 2
MaxBackoff == 3
MaxCalls == 1

----------------------------------------------------------------------------
(* The remote workspace.  A node has a block type, the has_children flag,  *)
(* its block-children listing and (a database) its rows listing; a listing *)
(* is the sequence of pages the remote serves, each a sequence of ids.     *)

Range(s) == {s[i] : i \in 1..Len(s)}

Node(t, hc, ch, rows) ==
    [type |-> t, has_children |-> hc, children |-> ch, rows |-> rows]

NoPages == <<>>
Empty1  == << <<>> >>

Leaf     == Node("paragraph", FALSE, Empty1, NoPages)
FileBlk  == Node("file", FALSE, Empty1, NoPages)
PageLeaf == Node("child_page", FALSE, Empty1, NoPages)

\* root block B with children page P and attachment F (spec.md, section 8)
World1 == <<Node("paragraph", TRUE, << <<2, 3>> >>, NoPages), PageLeaf, FileBlk, Leaf>>
\* a listing served as three pages; a nested block with children
World2 == <<Node("paragraph", TRUE, << <<2>>, <<3>>, <<4>> >>, NoPages),
            PageLeaf, Node("toggle", TRUE, << <<4>> >>, NoPages), Leaf>>
\* a child database whose rows come as two pages
World3 == <<Node("paragraph", TRUE, << <<2>> >>, NoPages),
            Node("child_database", FALSE, Empty1, << <<3>>, <<4>> >>),
            PageLeaf, PageLeaf>>
\* the same id listed twice, and listed again further down
World4 == <<Node("paragraph", TRUE, << <<2, 2, 3>> >>, NoPages),
            Node("toggle", TRUE, << <<4>> >>, NoPages),
            Node("toggle", TRUE, << <<2>> >>, NoPages), Leaf>>

\* sub-types that meet more than one dispatch rule: a child database and a file
\* block that have block children, after an attachment without any
World5 == <<Node("child_page", TRUE, << <<4, 2, 3>> >>, NoPages),
            Node("child_database", TRUE, Empty1, Empty1),
            Node("file", TRUE, << <<4>> >>, NoPages),
            Node("image", FALSE, Empty1, NoPages)>>

Worlds == <<World1, World2, World3, World4, World5>>
\* the workspaces the full specification crawls; the crawl-only one crawls them all
SpecWorlds == 1..4
Ids == 1..4
Root == 1

FileAttachmentType == {"file", "image", "video", "audio", "pdf"}

\* blocks.children.list / databases.query: the page a cursor leads to.
\* cursor 0 is None (client.py: "if start_cursor:"), page k's next_cursor is k + 1.
RemotePage(listing, cursor) ==
    LET k == IF cursor = 0 THEN 1 ELSE cursor
    IN  [results     |-> listing[k],
         has_more    |-> k < Len(listing),
         next_cursor |-> IF k < Len(listing) THEN k + 1 ELSE 0]

RemoteListing(w, id, which) ==
    IF which = "database" THEN Worlds[w][id].rows ELSE Worlds[w][id].children

----------------------------------------------------------------------------
(* PullState (persistence.py).  failed_entities is a dict: its keys in     *)
(* insertion order; the error text does not steer anything and is left out.*)

EmptyState == [completed |-> {}, failed |-> <<>>]

Remove(s, x) == SelectSeq(s, LAMBDA y : y # x)

\* mutants of is_completed: it looks in the failed map; it never says yes
is_completed_failed(st, id) == id \in Range(st.failed)
is_completed_never(st, id) == FALSE

is_completed(st, id) == id \in st.completed

\* mutant of mark_completed: the failed entry is not popped
mark_completed_keep(st, id) ==
    [completed |-> st.completed \cup {id}, failed |-> st.failed]

\* mutant of mark_completed: the whole failed map is dropped
mark_completed_clear(st, id) ==
    [completed |-> st.completed \cup {id}, failed |-> <<>>]

mark_completed(st, id) ==
    [completed |-> st.completed \cup {id}, failed |-> Remove(st.failed, id)]

mark_failed(st, id) ==
    [completed |-> st.completed,
     failed    |-> IF id \in Range(st.failed) THEN st.failed ELSE Append(st.failed, id)]

\* mutant of reset: only the failed map is cleared
reset_failed_only(st) == [completed |-> st.completed, failed |-> <<>>]

reset(st) == EmptyState

\* mutant of reset_failed_entities: it clears the completed set too
reset_failed_entities_all(st) == [completed |-> {}, failed |-> <<>>]

\* mutant of reset_failed_entities: completed is left as it is
reset_failed_entities_keep(st) == [completed |-> st.completed, failed |-> <<>>]

reset_failed_entities(st) ==
    [completed |-> st.completed \ Range(st.failed), failed |-> <<>>]

\* the state file: absent, a complete JSON document, or cut short by open(.., "w")
NoFile     == [status |-> "absent",  data |-> EmptyState]
Truncated  == [status |-> "corrupt", data |-> EmptyState]
Written(st) == [status |-> "ok", data |-> st]

\* load_state: a missing file and a file json.load rejects both leave the fresh state
load_state(f) == IF f.status = "ok" THEN f.data ELSE EmptyState

----------------------------------------------------------------------------
(* Frames, events and snapshot files.                                      *)

Frame(id, kind, path) ==
    [id |-> id, kind |-> kind, path |-> path, pc |-> "enter", mtype |-> "none",
     listing |-> "none", acc |-> <<>>, cursor |-> 0, idx |-> 0]

Event(ev, id, kind, dtype, n, ok) ==
    [ev |-> ev, id |-> id, kind |-> kind, dtype |-> dtype, n |-> n, ok |-> ok]

Top == stack[1]
SetTop(f) == <<f>> \o Tail(stack)

\* _save_entity_data: <base_path>/<entity_type>_<entity_id>_<data_type>.json
Snapshot(path, kind, id, dtype, results) ==
    [path |-> path, kind |-> kind, id |-> id, dtype |-> dtype,
     results |-> results, has_more |-> FALSE]

SameFile(a, b) ==
    a.path = b.path /\ a.kind = b.kind /\ a.id = b.id /\ a.dtype = b.dtype

save_json(fs, snap) == {f \in fs : ~SameFile(f, snap)} \cup {snap}

Running == op # "idle"
\* the environment injects a bounded number of faults: a call that raises, an interrupt
CanRaise == budget.faults < MaxFaults
Raise == [budget EXCEPT !.faults = @ + 1]


----------------------------------------------------------------------------
(* NotionPuller._pull_entity_recursive, step by step.                      *)

Stepping == Running /\ ~saving /\ stack # <<>>
At(pc) == Stepping /\ Top.pc = pc

Logged(e) == log' = Append(log, e)

\* lines 80-89: an id already in completed is skipped
VisitSkip ==
    /\ At("enter")
    /\ is_completed(state, Top.id)
    /\ stack' = Tail(stack)
    /\ Logged(Event("skip", Top.id, Top.kind, "none", 0, TRUE))
    /\ UNCHANGED <<world, persisted, state, file, saving, queue, op, files, downloads,
                   returned, cur, prev, budget, retry, store, writers>>

\* lines 103-105, 128-130: get_block / get_database returns or raises
FetchMain ==
    /\ At("enter")
    /\ ~is_completed(state, Top.id)
    /\ \E ok \in BOOLEAN :
        /\ ok \/ CanRaise
        /\ Logged(Event("fetch", Top.id, Top.kind, "none", 0, ok))
        /\ stack' = SetTop([Top EXCEPT
                !.pc = IF ok THEN "save_main" ELSE "fail",
                !.mtype = IF ok THEN Worlds[world][Top.id].type ELSE "none"])
        /\ budget' = IF ok THEN budget ELSE Raise
    /\ UNCHANGED <<world, persisted, state, file, saving, queue, op, files, downloads,
                   returned, cur, prev, retry, store, writers>>

\* _pull_children, lines 164-169: which pagination loop runs first
FirstListing(f) ==
    IF f.kind = "database" THEN "database"
    ELSE IF f.mtype = "child_database" THEN "database" ELSE "block"

StartListing(f, which) ==
    [f EXCEPT !.pc = "list", !.listing = which, !.acc = <<>>, !.cursor = 0, !.idx = 0]

\* lines 106-108, 131-133: the "main" snapshot is written, or save_json raises
SaveMain ==
    /\ At("save_main")
    /\ \E ok \in BOOLEAN :
        /\ ok \/ CanRaise
        /\ files' = IF ok THEN save_json(files, Snapshot(Top.path, Top.kind, Top.id, "main", <<>>))
                          ELSE files
        /\ Logged(Event("write", Top.id, Top.kind, "main", 0, ok))
        /\ stack' = SetTop(
                IF ~ok THEN [Top EXCEPT !.pc = "fail"]
                ELSE IF Top.kind = "block" /\ Top.mtype = "child_page"
                     THEN [Top EXCEPT !.pc = "fetch_page"]
                     ELSE StartListing(Top, FirstListing(Top)))
        /\ budget' = IF ok THEN budget ELSE Raise
    /\ UNCHANGED <<world, persisted, state, file, saving, queue, op, downloads,
                   returned, cur, prev, retry, store, writers>>

\* lines 111-112: a block of type child_page is fetched again as a page
FetchPage ==
    /\ At("fetch_page")
    /\ \E ok \in BOOLEAN :
        /\ ok \/ CanRaise
        /\ Logged(Event("get_page", Top.id, Top.kind, "none", 0, ok))
        /\ stack' = SetTop([Top EXCEPT !.pc = IF ok THEN "save_page" ELSE "fail"])
        /\ budget' = IF ok THEN budget ELSE Raise
    /\ UNCHANGED <<world, persisted, state, file, saving, queue, op, files, downloads,
                   returned, cur, prev, retry, store, writers>>

\* lines 113-119: the "page_data" snapshot
SavePage ==
    /\ At("save_page")
    /\ \E ok \in BOOLEAN :
        /\ ok \/ CanRaise
        /\ files' = IF ok THEN save_json(files, Snapshot(Top.path, Top.kind, Top.id, "page_data", <<>>))
                          ELSE files
        /\ Logged(Event("write", Top.id, Top.kind, "page_data", 0, ok))
        /\ stack' = SetTop(IF ok THEN StartListing(Top, FirstListing(Top))
                                 ELSE [Top EXCEPT !.pc = "fail"])
        /\ budget' = IF ok THEN budget ELSE Raise
    /\ UNCHANGED <<world, persisted, state, file, saving, queue, op, downloads,
                   returned, cur, prev, retry, store, writers>>

\* one turn of "while True" (lines 176-191, 246-257): the page at the cursor is
\* fetched and its items are appended; the loop ends when has_more is false
\* mutant of NextPage: the page replaces all_children instead of extending it
NextPageReplace(f, page) ==
    [f EXCEPT !.acc = page.results,
              !.cursor = IF page.has_more THEN page.next_cursor ELSE f.cursor,
              !.pc = IF page.has_more THEN "list" ELSE "save_children"]

NextPage(f, page) ==
    [f EXCEPT !.acc = f.acc \o page.results,
              !.cursor = IF page.has_more THEN page.next_cursor ELSE f.cursor,
              !.pc = IF page.has_more THEN "list" ELSE "save_children"]

\* mutant of ListPage: a listing call that raises ends the node's work as done
ListPageLenient ==
    /\ At("list")
    /\ \E ok \in BOOLEAN :
        /\ ok \/ CanRaise
        /\ Logged(Event("list", Top.id, Top.listing, "none", Top.cursor, ok))
        /\ stack' = SetTop(
                IF ok THEN NextPage(Top, RemotePage(RemoteListing(world, Top.id, Top.listing),
                                                    Top.cursor))
                      ELSE [Top EXCEPT !.pc = "complete"])
        /\ budget' = IF ok THEN budget ELSE Raise
    /\ UNCHANGED <<world, persisted, state, file, saving, queue, op, files, downloads,
                   returned, cur, prev, retry, store, writers>>

\* mutant of ListPage: when a page cannot be fetched the pages fetched so far are
\* taken for the listing
ListPagePartial ==
    /\ At("list")
    /\ \E ok \in BOOLEAN :
        /\ ok \/ CanRaise
        /\ Logged(Event("list", Top.id, Top.listing, "none", Top.cursor, ok))
        /\ stack' = SetTop(
                IF ok THEN NextPage(Top, RemotePage(RemoteListing(world, Top.id, Top.listing),
                                                    Top.cursor))
                      ELSE [Top EXCEPT !.pc = "save_children"])
        /\ budget' = IF ok THEN budget ELSE Raise
    /\ UNCHANGED <<world, persisted, state, file, saving, queue, op, files, downloads,
                   returned, cur, prev, retry, store, writers>>

ListPage ==
    /\ At("list")
    /\ \E ok \in BOOLEAN :
        /\ ok \/ CanRaise
        /\ Logged(Event("list", Top.id, Top.listing, "none", Top.cursor, ok))
        /\ stack' = SetTop(
                IF ok THEN NextPage(Top, RemotePage(RemoteListing(world, Top.id, Top.listing),
                                                    Top.cursor))
                      ELSE [Top EXCEPT !.pc = "fail"])
        /\ budget' = IF ok THEN budget ELSE Raise
    /\ UNCHANGED <<world, persisted, state, file, saving, queue, op, files, downloads,
                   returned, cur, prev, retry, store, writers>>

\* mutant of SaveChildren: a failed write of the "children" snapshot is ignored and
\* the children are recursed into all the same
SaveChildrenLenient ==
    /\ At("save_children")
    /\ \E ok \in BOOLEAN :
        /\ ok \/ CanRaise
        /\ files' = IF ok THEN save_json(files, Snapshot(Top.path, Top.listing, Top.id,
                                                         "children", Top.acc))
                          ELSE files
        /\ Logged(Event("write", Top.id, Top.listing, "children", 0, ok))
        /\ stack' = SetTop([Top EXCEPT !.pc = "loop", !.idx = 1])
        /\ budget' = IF ok THEN budget ELSE Raise
    /\ UNCHANGED <<world, persisted, state, file, saving, queue, op, downloads,
                   returned, cur, prev, retry, store, writers>>

\* lines 193-202, 259-273: the one "children" snapshot of the whole listing
SaveChildren ==
    /\ At("save_children")
    /\ \E ok \in BOOLEAN :
        /\ ok \/ CanRaise
        /\ files' = IF ok THEN save_json(files, Snapshot(Top.path, Top.listing, Top.id,
                                                         "children", Top.acc))
                          ELSE files
        /\ Logged(Event("write", Top.id, Top.listing, "children", 0, ok))
        /\ stack' = SetTop([Top EXCEPT !.pc = IF ok THEN "loop" ELSE "fail", !.idx = 1])
        /\ budget' = IF ok THEN budget ELSE Raise
    /\ UNCHANGED <<world, persisted, state, file, saving, queue, op, downloads,
                   returned, cur, prev, retry, store, writers>>

\* mutant of Classify: a block without children is visited as well
ClassifyEager(which, child) ==
    IF which = "database" THEN "visit_block"
    ELSE IF child.type = "child_database" THEN "visit_database"
    ELSE IF child.type \in FileAttachmentType THEN "download"
    ELSE "visit_block"

\* mutant of Classify: has_children is tested before the sub-type
ClassifyChildrenFirst(which, child) ==
    IF which = "database" THEN "visit_block"
    ELSE IF child.has_children THEN "visit_block"
    ELSE IF child.type = "child_page" THEN "visit_block"
    ELSE IF child.type = "child_database" THEN "visit_database"
    ELSE IF child.type \in FileAttachmentType THEN "download"
    ELSE "none"

\* lines 209-229 and 280-285: what is done with one listed child
Classify(which, child) ==
    IF which = "database" THEN "visit_block"
    ELSE IF child.type = "child_page" THEN "visit_block"
    ELSE IF child.type = "child_database" THEN "visit_database"
    ELSE IF child.has_children THEN "visit_block"
    ELSE IF child.type \in FileAttachmentType THEN "download"
    ELSE "none"

InLoop == At("loop") /\ Top.idx <= Len(Top.acc)
Child == Top.acc[Top.idx]
ChildRule == Classify(Top.listing, Worlds[world][Child])
\* lines 206, 277: entity_dir = base_path / "<kind>_<id>"
EntityDir(f) == Append(f.path, <<f.listing, f.id>>)
Advance == [Top EXCEPT !.idx = @ + 1]

DispatchVisit ==
    /\ InLoop
    /\ ChildRule \in {"visit_block", "visit_database"}
    /\ stack' = <<Frame(Child, IF ChildRule = "visit_block" THEN "block" ELSE "database",
                        EntityDir(Top))>> \o SetTop(Advance)
    /\ UNCHANGED <<world, persisted, state, file, saving, queue, op, log, files, downloads,
                   returned, cur, prev, budget, retry, store, writers>>

\* mutant of DispatchDownload: a failed download is raised into the visit of the parent
DispatchDownloadRaises ==
    /\ InLoop
    /\ ChildRule = "download"
    /\ \E ok \in BOOLEAN :
        /\ downloads' = IF ok THEN downloads \cup {[path |-> EntityDir(Top), id |-> Child]}
                              ELSE downloads
        /\ Logged(Event("download", Child, "block", "none", 0, ok))
        /\ stack' = SetTop(IF ok THEN Advance ELSE [Top EXCEPT !.pc = "fail"])
    /\ UNCHANGED <<world, persisted, state, file, saving, queue, op, files,
                   returned, cur, prev, budget, retry, store, writers>>

\* _download_file_attachment: the file is fetched, or the failure is logged and dropped
DispatchDownload ==
    /\ InLoop
    /\ ChildRule = "download"
    /\ \E ok \in BOOLEAN :
        /\ downloads' = IF ok THEN downloads \cup {[path |-> EntityDir(Top), id |-> Child]}
                              ELSE downloads
        /\ Logged(Event("download", Child, "block", "none", 0, ok))
    /\ stack' = SetTop(Advance)
    /\ UNCHANGED <<world, persisted, state, file, saving, queue, op, files,
                   returned, cur, prev, budget, retry, store, writers>>

DispatchNone ==
    /\ InLoop
    /\ ChildRule = "none"
    /\ stack' = SetTop(Advance)
    /\ UNCHANGED <<world, persisted, state, file, saving, queue, op, log, files, downloads,
                   returned, cur, prev, budget, retry, store, writers>>

\* mutant of LoopEnd: the end of the list is looked for one item too far
LoopEndOffByOne ==
    /\ At("loop")
    /\ Top.idx > Len(Top.acc) + 1
    /\ stack' = SetTop(IF Top.kind = "block" /\ Top.listing = "database"
                       THEN StartListing(Top, "block")
                       ELSE [Top EXCEPT !.pc = "complete"])
    /\ UNCHANGED <<world, persisted, state, file, saving, queue, op, log, files, downloads,
                   returned, cur, prev, budget, retry, store, writers>>

\* the for loop is over: a block with a child database lists its block children
\* next (line 167); otherwise the node is done
LoopEnd ==
    /\ At("loop")
    /\ Top.idx > Len(Top.acc)
    /\ stack' = SetTop(IF Top.kind = "block" /\ Top.listing = "database"
                       THEN StartListing(Top, "block")
                       ELSE [Top EXCEPT !.pc = "complete"])
    /\ UNCHANGED <<world, persisted, state, file, saving, queue, op, log, files, downloads,
                   returned, cur, prev, budget, retry, store, writers>>

\* save_state up to open(state_file, "w"): the file is cut to nothing
BeginSave == file' = Truncated /\ saving' = TRUE

\* line 140: mark_completed, and return
MarkCompleted ==
    /\ At("complete")
    /\ state' = mark_completed(state, Top.id)
    /\ BeginSave
    /\ stack' = Tail(stack)
    /\ Logged(Event("completed", Top.id, Top.kind, "none", 0, TRUE))
    /\ returned' = [returned EXCEPT ![Top.id] = "completed"]
    /\ UNCHANGED <<world, persisted, queue, op, files, downloads, cur, prev, budget,
                   retry, store, writers>>

\* mutant of MarkFailed: the exception is recorded and raised again, so that it
\* unwinds every caller
MarkFailedRaise ==
    /\ At("fail")
    /\ state' = mark_failed(state, Top.id)
    /\ BeginSave
    /\ stack' = <<>>
    /\ queue' = <<>>
    /\ Logged(Event("failed", Top.id, Top.kind, "none", 0, TRUE))
    /\ returned' = [returned EXCEPT ![Top.id] = "failed"]
    /\ UNCHANGED <<world, persisted, op, files, downloads, cur, prev, budget,
                   retry, store, writers>>

\* mutant of MarkFailed: the exception of the root's visit is recorded and raised
\* again, into pull_all
MarkFailedEscape ==
    /\ At("fail")
    /\ state' = mark_failed(state, Top.id)
    /\ BeginSave
    /\ stack' = Tail(stack)
    /\ Logged(Event("failed", Top.id, Top.kind, "none", 0, TRUE))
    /\ returned' = [returned EXCEPT ![Top.id] = "failed"]
    /\ cur' = IF Len(stack) = 1 /\ op = "pull_all" THEN [cur EXCEPT !.end = "raising"] ELSE cur
    /\ UNCHANGED <<world, persisted, queue, op, files, downloads, prev, budget,
                   retry, store, writers>>

\* mutant of MarkFailed: the exception is recorded and ends the retry loop of
\* pull_failed_entities_only
MarkFailedEndsRetry ==
    /\ At("fail")
    /\ state' = mark_failed(state, Top.id)
    /\ BeginSave
    /\ stack' = Tail(stack)
    /\ queue' = IF Len(stack) = 1 THEN <<>> ELSE queue
    /\ Logged(Event("failed", Top.id, Top.kind, "none", 0, TRUE))
    /\ returned' = [returned EXCEPT ![Top.id] = "failed"]
    /\ UNCHANGED <<world, persisted, op, files, downloads, cur, prev, budget,
                   retry, store, writers>>

\* lines 142-153: any exception of the steps above is recorded, not raised
MarkFailed ==
    /\ At("fail")
    /\ state' = mark_failed(state, Top.id)
    /\ BeginSave
    /\ stack' = Tail(stack)
    /\ Logged(Event("failed", Top.id, Top.kind, "none", 0, TRUE))
    /\ returned' = [returned EXCEPT ![Top.id] = "failed"]
    /\ UNCHANGED <<world, persisted, queue, op, files, downloads, cur, prev, budget,
                   retry, store, writers>>

\* save_state, line 38: json.dump writes the whole state
FinishSave ==
    /\ saving
    /\ file' = Written(state)
    /\ persisted' = <<state>> \o SubSeq(persisted, 1, IF persisted = <<>> THEN 0 ELSE 1)
    /\ saving' = FALSE
    /\ UNCHANGED <<world, state, stack, queue, op, log, files, downloads,
                   returned, cur, prev, budget, retry, store, writers>>

----------------------------------------------------------------------------
(* The methods a driver calls (scripts/pull.py).                           *)

Idle == op = "idle"
NoneReturned == [i \in Ids |-> "none"]

Begin(o) ==
    /\ Idle
    /\ budget.ops < MaxOps
    /\ op' = o
    /\ log' = <<>>
    /\ cur' = [op |-> o, end |-> "running", start |-> state, final |-> state]
    /\ prev' = [op |-> cur.op, end |-> cur.end, final |-> cur.final]
    /\ budget' = [budget EXCEPT !.ops = @ + 1]

End(how) ==
    /\ op' = "idle"
    /\ cur' = [cur EXCEPT !.end = how, !.final = state]
    /\ prev' = prev

pull_all ==
    /\ Begin("pull_all")
    /\ stack' = <<Frame(Root, "block", <<>>)>>
    /\ UNCHANGED <<world, persisted, state, file, saving, queue, files, downloads, returned,
                   retry, store, writers>>

\* lines 392-405: nothing to retry, or the failed map is cleared and its ids queued
pull_failed_entities_only ==
    /\ Begin("pull_failed_entities_only")
    /\ IF state.failed = <<>>
       THEN UNCHANGED <<state, file, saving, queue, returned>>
       ELSE /\ state' = reset_failed_entities(state)
            /\ BeginSave
            /\ queue' = state.failed
            /\ returned' = NoneReturned
    /\ UNCHANGED <<world, persisted, stack, files, downloads, retry, store, writers>>

\* lines 407-412: each queued id is visited as a block under raw/
RetryNext ==
    /\ op = "pull_failed_entities_only"
    /\ ~saving
    /\ stack = <<>>
    /\ queue # <<>>
    /\ stack' = <<Frame(Head(queue), "block", <<>>)>>
    /\ queue' = Tail(queue)
    /\ UNCHANGED <<world, persisted, state, file, saving, op, log, files, downloads,
                   returned, cur, prev, budget, retry, store, writers>>

reset_state ==
    /\ Begin("reset_state")
    /\ state' = reset(state)
    /\ BeginSave
    /\ returned' = NoneReturned
    /\ UNCHANGED <<world, persisted, stack, queue, files, downloads, retry, store, writers>>

retry_failed_entities ==
    /\ Begin("retry_failed_entities")
    /\ state' = reset_failed_entities(state)
    /\ BeginSave
    /\ returned' = NoneReturned
    /\ UNCHANGED <<world, persisted, stack, queue, files, downloads, retry, store, writers>>

\* the method is over.  pull_all (lines 54-73) returns, or raises again what
\* _pull_entity_recursive raised
Return ==
    /\ Running
    /\ ~saving
    /\ stack = <<>>
    /\ queue = <<>>
    /\ End(IF cur.end = "raising" THEN "raised" ELSE "returned")
    /\ UNCHANGED <<world, persisted, state, file, saving, stack, queue, log, files, downloads,
                   returned, budget, retry, store, writers>>

\* KeyboardInterrupt or kill: the process is gone; the next NotionPuller
\* (puller.py line 34) loads whatever the state file holds
Interrupt ==
    /\ Running
    /\ CanRaise
    /\ End("interrupted")
    /\ state' = load_state(file)
    /\ saving' = FALSE
    /\ stack' = <<>>
    /\ queue' = <<>>
    /\ returned' = NoneReturned
    /\ budget' = Raise
    /\ log' = <<>>
    /\ UNCHANGED <<world, persisted, file, files, downloads, retry, store, writers>>

----------------------------------------------------------------------------
(* NotionAPIClient._retry_with_backoff (client.py), one call of it.        *)
(* attempt is the loop variable of "for attempt in range(max_retries)".    *)
(* The k-th invocation of func returns the value k or raises exception k.  *)

RECURSIVE Pow(_, _)
Pow(b, n) == IF n <= 0 THEN 1 ELSE b * Pow(b, n - 1)

RetryIdle ==
    [phase |-> "off", max_retries |-> 0, api_delay |-> 0, backoff_factor |-> 0,
     attempt |-> 0, calls |-> 0, outcomes |-> <<>>, sleeps |-> <<>>,
     result |-> [kind |-> "none", n |-> 0]]

Sleep(why, t) == [why |-> why, t |-> t]

\* mutant of wait_time: the exponent counts attempts from 1
wait_time_from1(r) == r.api_delay * Pow(r.backoff_factor, r.attempt + 1)

\* line 36: wait_time = api_delay * backoff_factor ** attempt
wait_time(r) == r.api_delay * Pow(r.backoff_factor, r.attempt)

\* mutant of LastAttempt: off by one
LastAttemptLate(r) == r.attempt = r.max_retries

\* line 50: attempt == max_retries - 1
LastAttempt(r) == r.attempt = r.max_retries - 1

\* line 20: the next turn of the for loop, if range(max_retries) has one; line 23:
\* the rate-limit sleep.  A loop that runs out falls off the end of the function.
RetryLoop ==
    /\ retry.phase = "loop"
    /\ retry' = IF retry.attempt < retry.max_retries
                THEN [retry EXCEPT !.phase = "call",
                                   !.sleeps = Append(@, Sleep("rate", retry.api_delay))]
                ELSE [retry EXCEPT !.phase = "fell_through",
                                   !.result = [kind |-> "None", n |-> 0]]
    /\ UNCHANGED <<cvars, store, writers>>

\* lines 24-33: func is invoked; it returns (and so does the wrapper) or raises
RetryCall ==
    /\ retry.phase = "call"
    /\ \E ok \in BOOLEAN :
        retry' = [retry EXCEPT
            !.calls = @ + 1,
            !.outcomes = Append(@, ok),
            !.phase = IF ok THEN "returned" ELSE "caught",
            !.result = [kind |-> IF ok THEN "value" ELSE "exc", n |-> retry.calls + 1]]
    /\ UNCHANGED <<cvars, store, writers>>

\* lines 35-60: the handler re-raises on the last attempt, else sleeps and loops
RetryCaught ==
    /\ retry.phase = "caught"
    /\ retry' = IF LastAttempt(retry)
                THEN [retry EXCEPT !.phase = "raised"]
                ELSE [retry EXCEPT !.phase = "loop",
                                   !.attempt = @ + 1,
                                   !.sleeps = Append(@, Sleep("backoff", wait_time(retry)))]
    /\ UNCHANGED <<cvars, store, writers>>

----------------------------------------------------------------------------
(* A PullState object on its own (persistence.py): the state file as a     *)
(* document, __init__ with load_state, and the four mutating methods       *)
(* called in any order with any id.  A value of the JSON object is missing,*)
(* null, or of the type save_state writes.                                 *)

Missing(empty) == [t |-> "missing", v |-> empty]
Null(empty) == [t |-> "null", v |-> empty]
Value(v) == [t |-> "value", v |-> v]

Document(kind, c, f, m) == [kind |-> kind, completed |-> c, failed |-> f, metadata |-> m]
NoObject(kind) == Document(kind, Missing({}), Missing(<<>>), Missing({}))

\* dicts of at most two keys, in insertion order
FailedDicts == {<<>>} \cup {<<a>> : a \in Ids}
                      \cup {d \in {<<a, b>> : a \in Ids, b \in Ids} : d[1] # d[2]}
MetadataDicts == {{}, {"note"}}

Documents ==
    {NoObject(k) : k \in {"absent", "unreadable", "not_json", "not_object"}}
    \cup {Document("object", c, f, m) :
            c \in {Missing({}), Null({})} \cup {Value(x) : x \in SUBSET Ids},
            f \in {Missing(<<>>), Null(<<>>)} \cup {Value(x) : x \in FailedDicts},
            m \in {Missing({}), Null({})} \cup {Value(x) : x \in MetadataDicts}}

\* __init__, lines 11-13.  failed_is_dict and metadata_is_dict are false when
\* the attribute holds None
Fresh ==
    [completed |-> {}, failed |-> <<>>, metadata |-> {},
     failed_is_dict |-> TRUE, metadata_is_dict |-> TRUE]

\* load_state, lines 18-27: open, json.load, data.get or set(..) raising leaves
\* the fresh object; after line 22 nothing raises
load_document(d) ==
    IF d.kind # "object" THEN Fresh
    ELSE IF d.completed.t = "null" THEN Fresh
    ELSE [completed |-> d.completed.v,
          failed |-> d.failed.v,
          metadata |-> d.metadata.v,
          failed_is_dict |-> d.failed.t # "null",
          metadata_is_dict |-> d.metadata.t # "null"]

Dumped(is_dict, v) == IF is_dict THEN Value(v) ELSE [t |-> "null", v |-> v]

\* mutant of save_state: the metadata is not written
save_state_no_metadata(m) ==
    Document("object", Value(m.completed), Dumped(m.failed_is_dict, m.failed), Missing({}))

\* save_state, lines 32-38: the three attributes as one JSON object
save_state(m) ==
    Document("object", Value(m.completed), Dumped(m.failed_is_dict, m.failed),
             Dumped(m.metadata_is_dict, m.metadata))

Sets(m) == [completed |-> m.completed, failed |-> m.failed]
WithSets(m, st) == [m EXCEPT !.completed = st.completed, !.failed = st.failed]

NoCall == [name |-> "none", id |-> 0, raised |-> FALSE, twice |-> FALSE, before |-> Fresh]

\* a method call ends: what it left in memory, whether it raised (then save_state
\* was not reached), whether it repeats the call before it
Called(name, id, m, raised) ==
    store' = [store EXCEPT
        !.pc = "ready",
        !.mem = m,
        !.doc = IF raised THEN store.doc ELSE save_state(m),
        !.last = [name |-> name, id |-> id, raised |-> raised, before |-> store.mem,
                  twice |-> /\ store.last.name = name /\ store.last.id = id
                            /\ ~store.last.raised /\ ~raised]]

StoreInit ==
    /\ store.pc = "new"
    /\ store' = [store EXCEPT !.pc = "ready", !.mem = load_document(store.doc),
                              !.last = [NoCall EXCEPT !.name = "__init__"]]
    /\ UNCHANGED <<cvars, retry, writers>>

\* lines 42-44: the pop raises on a failed attribute that is no dict
StoreMarkCompleted ==
    /\ store.pc = "ready"
    /\ \E id \in Ids :
        IF store.mem.failed_is_dict
        THEN Called("mark_completed", id,
                    WithSets(store.mem, mark_completed(Sets(store.mem), id)), FALSE)
        ELSE Called("mark_completed", id,
                    [store.mem EXCEPT !.completed = @ \cup {id}], TRUE)
    /\ UNCHANGED <<cvars, retry, writers>>

\* lines 48-49
StoreMarkFailed ==
    /\ store.pc = "ready"
    /\ \E id \in Ids :
        IF store.mem.failed_is_dict
        THEN Called("mark_failed", id,
                    WithSets(store.mem, mark_failed(Sets(store.mem), id)), FALSE)
        ELSE Called("mark_failed", id, store.mem, TRUE)
    /\ UNCHANGED <<cvars, retry, writers>>

\* lines 61-64: three clear() calls in a row, each of which may raise
StoreReset ==
    /\ store.pc = "ready"
    /\ IF ~store.mem.failed_is_dict
       THEN Called("reset", 0, [store.mem EXCEPT !.completed = {}], TRUE)
       ELSE IF ~store.mem.metadata_is_dict
            THEN Called("reset", 0, WithSets(store.mem, reset(Sets(store.mem))), TRUE)
            ELSE Called("reset", 0,
                        [WithSets(store.mem, reset(Sets(store.mem))) EXCEPT !.metadata = {}],
                        FALSE)
    /\ UNCHANGED <<cvars, retry, writers>>

\* lines 68-71
StoreResetFailed ==
    /\ store.pc = "ready"
    /\ IF store.mem.failed_is_dict
       THEN Called("reset_failed_entities", 0,
                   WithSets(store.mem, reset_failed_entities(Sets(store.mem))), FALSE)
       ELSE Called("reset_failed_entities", 0, store.mem, TRUE)
    /\ UNCHANGED <<cvars, retry, writers>>

StoreIdle == [pc |-> "off", doc |-> NoObject("absent"), mem |-> Fresh, last |-> NoCall]

----------------------------------------------------------------------------
(* Two crawler processes over one data directory: each NotionPuller has its *)
(* own PullState, loaded once in __init__ (puller.py line 34) and never     *)
(* read again; every mark writes the whole of its memory to the one state   *)
(* file.  The steps of the two interleave freely; there is no lock.         *)

Writers == 1..2

WritersIdle ==
    [pc     |-> [i \in Writers |-> "off"],
     mem    |-> [i \in Writers |-> EmptyState],
     loaded |-> [i \in Writers |-> {}],    \* completed as load_state found it
     own    |-> [i \in Writers |-> {}],    \* ids this object marked completed
     kept   |-> [i \in Writers |-> {}],    \* those of them a save_state of it has written
     calls  |-> [i \in Writers |-> 0],
     file   |-> NoFile,
     last   |-> 0]                          \* whose save_state finished last

\* __init__: load_state reads whatever the file holds at that moment
WriterLoad ==
    /\ \E i \in Writers :
        /\ writers.pc[i] = "new"
        /\ writers' = [writers EXCEPT !.pc[i] = "ready",
                                      !.mem[i] = load_state(writers.file),
                                      !.loaded[i] = load_state(writers.file).completed]
    /\ UNCHANGED <<cvars, retry, store>>

\* mutant of Current: the file is read again before every mutation
CurrentReread(i) ==
    [completed |-> writers.mem[i].completed \cup load_state(writers.file).completed,
     failed    |-> writers.mem[i].failed]

\* the sets a mutating method starts from: the object's own, as loaded in __init__
Current(i) == writers.mem[i]

\* mark_completed, lines 42-43, up to the call of save_state
WriterMarkCompleted ==
    /\ \E i \in Writers, id \in Ids :
        /\ writers.pc[i] = "ready"
        /\ writers.calls[i] < MaxCalls
        /\ writers' = [writers EXCEPT !.pc[i] = "open",
                                      !.mem[i] = mark_completed(Current(i), id),
                                      !.own[i] = @ \cup {id},
                                      !.calls[i] = @ + 1]
    /\ UNCHANGED <<cvars, retry, store>>

\* mark_failed, line 48, up to the call of save_state
WriterMarkFailed ==
    /\ \E i \in Writers, id \in Ids :
        /\ writers.pc[i] = "ready"
        /\ writers.calls[i] < MaxCalls
        /\ writers' = [writers EXCEPT !.pc[i] = "open",
                                      !.mem[i] = mark_failed(Current(i), id),
                                      !.calls[i] = @ + 1]
    /\ UNCHANGED <<cvars, retry, store>>

\* save_state, line 37: open(state_file, "w") cuts the file to nothing
WriterOpen ==
    /\ \E i \in Writers :
        /\ writers.pc[i] = "open"
        /\ writers' = [writers EXCEPT !.pc[i] = "dump", !.file = Truncated]
    /\ UNCHANGED <<cvars, retry, store>>

\* save_state, line 38: json.dump writes from offset 0 of the handle opened at
\* line 37.  Onto a file the other process has written since, that leaves this
\* document, or this document followed by the rest of the longer one: no JSON
WriterDump ==
    /\ \E i \in Writers :
        /\ writers.pc[i] = "dump"
        /\ \E f \in IF writers.file.status = "ok"
                     THEN {Written(writers.mem[i]), Truncated}
                     ELSE {Written(writers.mem[i])} :
            writers' = [writers EXCEPT !.pc[i] = "ready",
                                      !.file = f,
                                      !.kept[i] = writers.own[i],
                                      !.last = i]
    /\ UNCHANGED <<cvars, retry, store>>

----------------------------------------------------------------------------

CrawlerInit ==
    /\ state = load_state(NoFile)
    /\ file = NoFile
    /\ persisted = <<>>
    /\ saving = FALSE
    /\ stack = <<>>
    /\ queue = <<>>
    /\ op = "idle"
    /\ log = <<>>
    /\ files = {}
    /\ downloads = {}
    /\ returned = NoneReturned
    /\ cur = [op |-> "none", end |-> "none", start |-> EmptyState, final |-> EmptyState]
    /\ prev = [op |-> "none", end |-> "none", final |-> EmptyState]
    /\ budget = [ops |-> 0, faults |-> 0]

Init ==
    /\ world \in SpecWorlds
    /\ CrawlerInit
    /\ retry = RetryIdle
    /\ store = StoreIdle
    /\ writers = WritersIdle

\* Config (config.py lines 45-50): any integer max_retries, positive delay and factor
InitRetry ==
    /\ world = 1
    /\ CrawlerInit
    /\ \E m \in -1..MaxRetriesBound, d \in 1..MaxDelay, b \in 1..MaxBackoff :
        retry = [RetryIdle EXCEPT !.phase = "loop", !.max_retries = m,
                                  !.api_delay = d, !.backoff_factor = b]
    /\ store = StoreIdle
    /\ writers = WritersIdle

\* any document may be on disk when the PullState is constructed
InitStore ==
    /\ world = 1
    /\ CrawlerInit
    /\ retry = RetryIdle
    /\ \E d \in Documents : store = [StoreIdle EXCEPT !.pc = "new", !.doc = d]
    /\ writers = WritersIdle

Next ==
    \/ pull_all
    \/ pull_failed_entities_only
    \/ RetryNext
    \/ reset_state
    \/ retry_failed_entities
    \/ Return
    \/ Interrupt
    \/ VisitSkip
    \/ FetchMain
    \/ SaveMain
    \/ FetchPage
    \/ SavePage
    \/ ListPage
    \/ SaveChildren
    \/ DispatchVisit
    \/ DispatchDownload
    \/ DispatchNone
    \/ LoopEnd
    \/ MarkCompleted
    \/ MarkFailed
    \/ FinishSave

Spec == Init /\ [][Next]_vars

NextRetry ==
    \/ RetryLoop
    \/ RetryCall
    \/ RetryCaught

SpecRetry == InitRetry /\ [][NextRetry]_vars

\* pull_all called on its own, never interrupted: the process is sequential, so
\* whenever a step of the method in progress can be taken, it is taken
CrawlStep ==
    \/ VisitSkip
    \/ FetchMain
    \/ SaveMain
    \/ FetchPage
    \/ SavePage
    \/ ListPage
    \/ SaveChildren
    \/ DispatchVisit
    \/ DispatchDownload
    \/ DispatchNone
    \/ LoopEnd
    \/ MarkCompleted
    \/ MarkFailed
    \/ FinishSave
    \/ Return

NextCrawl ==
    \/ pull_all
    \/ CrawlStep

InitCrawl ==
    /\ world \in DOMAIN Worlds
    /\ CrawlerInit
    /\ retry = RetryIdle
    /\ store = StoreIdle
    /\ writers = WritersIdle

SpecCrawl == InitCrawl /\ [][NextCrawl]_vars /\ WF_vars(CrawlStep)

\* two processes are started over the state file of an earlier run, or over none
InitWriters ==
    /\ world = 1
    /\ CrawlerInit
    /\ retry = RetryIdle
    /\ store = StoreIdle
    /\ \E f \in {NoFile, Written(mark_completed(EmptyState, Root))} :
        writers = [WritersIdle EXCEPT !.pc = [i \in Writers |-> "new"], !.file = f]

NextWriters ==
    \/ WriterLoad
    \/ WriterMarkCompleted
    \/ WriterMarkFailed
    \/ WriterOpen
    \/ WriterDump

SpecWriters == InitWriters /\ [][NextWriters]_vars

NextStore ==
    \/ StoreInit
    \/ StoreMarkCompleted
    \/ StoreMarkFailed
    \/ StoreReset
    \/ StoreResetFailed

SpecStore == InitStore /\ [][NextStore]_vars

----------------------------------------------------------------------------
(* Properties.  The log holds what the method in progress (or the last one *)
(* that returned) did; cur.start is the PullState it began with.           *)

LogIdx == 1..Len(log)
Events(evs) == {i \in LogIdx : log[i].ev \in evs}
\* ids for which get_block, get_database or get_page was issued
FetchedIds == {log[i].id : i \in Events({"fetch", "get_page"})}
\* ids whose "main" snapshot was handed to save_json
MainWrittenIds == {log[i].id : i \in {j \in Events({"write"}) : log[j].dtype = "main"}}
CompletedNow == {log[i].id : i \in Events({"completed"})}
FailedNow == {log[i].id : i \in Events({"failed"})}
FailedIds == Range(state.failed)
Returned(o) == cur.op = o /\ cur.end = "returned"

\* a step of the _pull_entity_recursive call that is about to start (not an interrupt)
CallStep == At("enter") /\ op' # "idle"
NoOpCall ==
    /\ stack' = Tail(stack)
    /\ UNCHANGED <<state, file, saving, files, downloads>>
    /\ log' = Append(log, Event("skip", Top.id, Top.kind, "none", 0, TRUE))

C2_Resumability ==
    cur.op = "pull_all" =>
        /\ FetchedIds \cap cur.start.completed = {}
        /\ MainWrittenIds \cap cur.start.completed = {}

\* a pull_all that began with completed ids has skipped one and fetched another node
C2_Witness ==
    /\ cur.op = "pull_all"
    /\ \E i \in Events({"skip"}) : log[i].id \in cur.start.completed
    /\ FetchedIds # {}

\* the ids a listing of p names
Listed(p) ==
    UNION {Range(pg) : pg \in Range(Worlds[world][p].children)}
        \cup UNION {Range(pg) : pg \in Range(Worlds[world][p].rows)}
ParentsOf(c) == {p \in Ids : c \in Listed(p)}
VisitedIds == {log[i].id : i \in Events({"fetch"})}

\* every fetch of c raised, and nothing else did: no other call, no snapshot write
OnlyFetchOfFails(c) ==
    /\ \E i \in Events({"fetch"}) : log[i].id = c
    /\ \A i \in Events({"fetch", "get_page", "list", "write"}) :
           log[i].ok <=> ~(log[i].ev = "fetch" /\ log[i].id = c)

(* C3: when a pull_all that began with an empty store returns, and in it    *)
(* every fetch of one child id c raised while nothing else failed, then the *)
(* parent of c and every visited sibling of c are in completed, c is in     *)
(* failed, and no other id is in failed.                                    *)
C3_FailureIsolation ==
    (Returned("pull_all") /\ cur.start = EmptyState) =>
        \A c \in Ids \ {Root} :
            OnlyFetchOfFails(c) =>
                /\ FailedIds = {c}
                /\ \A q \in ParentsOf(c) \cap VisitedIds :
                       /\ q \in state.completed
                       /\ (Listed(q) \cap VisitedIds) \ {c} \subseteq state.completed

\* such a crawl has returned, and c has a sibling that was visited
C3_Witness ==
    /\ Returned("pull_all")
    /\ cur.start = EmptyState
    /\ \E c \in Ids \ {Root} :
           /\ OnlyFetchOfFails(c)
           /\ \E q \in ParentsOf(c) \cap VisitedIds :
                  (Listed(q) \cap VisitedIds) \ {c} # {}

(* C4: no id is both in completed and in failed, in memory or in the state  *)
(* file, whatever methods were called and whatever raised.                  *)
C4_Disjoint ==
    /\ state.completed \cap FailedIds = {}
    /\ file.data.completed \cap Range(file.data.failed) = {}

\* an id that had failed is completed now, while another id is failed
C4_Witness ==
    /\ FailedIds # {}
    /\ \E id \in state.completed : id \in Range(cur.start.failed) \cup FailedNow

(* C5 as claimed: after an interrupt, once a save_state had completed, the  *)
(* state file is a complete document and the PullState loaded from it is    *)
(* what the last completed save_state wrote, or the one before it.          *)
C5_CrashSafe ==
    (cur.end = "interrupted" /\ persisted # <<>>) =>
        /\ file.status = "ok"
        /\ state \in Range(persisted)

----------------------------------------------------------------------------
(* What one uninterrupted pull_all from an empty store leaves when nothing *)
(* raises: the completed set and the names of the snapshot files.          *)

RECURSIVE Flatten(_)
Flatten(pages) == IF pages = <<>> THEN <<>> ELSE Head(pages) \o Flatten(Tail(pages))

\* the items of every listing of every workspace, all pages in order
AllItems ==
    [w \in DOMAIN Worlds |-> [id \in Ids |-> [which \in {"block", "database"} |->
        Flatten(RemoteListing(w, id, which))]]]
Items(id, which) == AllItems[world][id][which]

FileName(path, kind, id, dtype) == [path |-> path, kind |-> kind, id |-> id, dtype |-> dtype]
FileNames == {FileName(f.path, f.kind, f.id, f.dtype) : f \in files}

RECURSIVE CrawlNode(_, _, _, _), CrawlItems(_, _, _, _)
CrawlListing(id, which, path, a) ==
    CrawlItems(Flatten(RemoteListing(world, id, which)), which, Append(path, <<which, id>>),
               [a EXCEPT !.files = @ \cup {FileName(path, which, id, "children")}])
CrawlNode(id, kind, path, a) ==
    IF id \in a.completed THEN a
    ELSE LET n == Worlds[world][id]
             first == IF kind = "database" \/ n.type = "child_database"
                      THEN "database" ELSE "block"
             a1 == [a EXCEPT !.files = @ \cup {FileName(path, kind, id, "main")}
                       \cup IF kind = "block" /\ n.type = "child_page"
                            THEN {FileName(path, kind, id, "page_data")} ELSE {}]
             a2 == CrawlListing(id, first, path, a1)
             a3 == IF kind = "block" /\ first = "database"
                   THEN CrawlListing(id, "block", path, a2) ELSE a2
         IN  [a3 EXCEPT !.completed = @ \cup {id}]
CrawlItems(items, which, dir, a) ==
    IF items = <<>> THEN a
    ELSE LET rule == Classify(which, Worlds[world][Head(items)])
             a1 == IF rule = "visit_block" THEN CrawlNode(Head(items), "block", dir, a)
                   ELSE IF rule = "visit_database"
                        THEN CrawlNode(Head(items), "database", dir, a)
                        ELSE a
         IN  CrawlItems(Tail(items), which, dir, a1)

Uninterrupted == CrawlNode(Root, "block", <<>>, [completed |-> {}, files |-> {}])

\* the second of two pull_all calls has returned, the first having been interrupted,
\* and no call raised in either
ResumedRun ==
    /\ Returned("pull_all")
    /\ prev.op = "pull_all" /\ prev.end = "interrupted"
    /\ budget.ops = 2 /\ budget.faults = 1

(* C6 as claimed: a pull_all interrupted anywhere and run again ends with   *)
(* the completed set, the empty failed map and the snapshot files of one    *)
(* uninterrupted pull_all, and the second run fetches no id that was in     *)
(* completed when the first was interrupted.                                *)
C6_ResumeEquivalence ==
    ResumedRun =>
        /\ state.completed = Uninterrupted.completed
        /\ state.failed = <<>>
        /\ FileNames = Uninterrupted.files
        /\ FetchedIds \cap prev.final.completed = {}

----------------------------------------------------------------------------

ListCall(id, which, cursor) == Event("list", id, which, "none", cursor, TRUE)

\* the n events before log[i] are the calls for pages 1..n of the listing, in order,
\* and the event before those is no call for that listing
PagesFetchedOnce(i) ==
    LET e == log[i]
        n == Len(RemoteListing(world, e.id, e.kind))
    IN  /\ i > n
        /\ \A k \in 1..n :
               log[i - n + k - 1] = ListCall(e.id, e.kind, IF k = 1 THEN 0 ELSE k)
        /\ i - n > 1 =>
               ~(log[i - n - 1].ev = "list" /\ log[i - n - 1].id = e.id
                 /\ log[i - n - 1].kind = e.kind)

(* C7: every "children" snapshot holds the items of all pages of its        *)
(* listing in their order, with has_more false, and the pagination loop     *)
(* that wrote it fetched each page exactly once.                            *)
C7_Pagination ==
    /\ \A f \in files :
           f.dtype = "children" =>
               /\ f.results = Items(f.id, f.kind)
               /\ f.has_more = FALSE
    /\ \A i \in Events({"write"}) : log[i].dtype = "children" => PagesFetchedOnce(i)

\* the snapshots of a three-page block listing and of a two-page rows listing exist
C7_Witness ==
    /\ \E f \in files : /\ f.dtype = "children" /\ f.kind = "block"
                        /\ Len(RemoteListing(world, f.id, f.kind)) = 3
                        /\ Len(f.results) = 3
    \/ \E f \in files : /\ f.dtype = "children" /\ f.kind = "database"
                        /\ Len(RemoteListing(world, f.id, f.kind)) = 2
                        /\ Len(f.results) = 2

----------------------------------------------------------------------------

RetryOver == retry.phase \in {"returned", "raised", "fell_through"}
Rate == Sleep("rate", retry.api_delay)
Backoff(k) == Sleep("backoff", retry.api_delay * Pow(retry.backoff_factor, k))

(* C8: with max_retries >= 3, a call that fails twice and then succeeds is  *)
(* attempted three times and returns the third result; api_delay is slept   *)
(* before each attempt, and after the two failures api_delay * factor^0 and *)
(* api_delay * factor^1.                                                    *)
C8_RetryThenSuccess ==
    (retry.max_retries >= 3 /\ retry.outcomes = <<FALSE, FALSE, TRUE>>) =>
        /\ retry.phase = "returned"
        /\ retry.calls = 3
        /\ retry.result = [kind |-> "value", n |-> 3]
        /\ retry.sleeps = <<Rate, Backoff(0), Rate, Backoff(1), Rate>>

C8_Witness ==
    /\ retry.max_retries >= 3
    /\ retry.outcomes = <<FALSE, FALSE, TRUE>>
    /\ retry.backoff_factor > 1

AllFailed == \A k \in 1..Len(retry.outcomes) : ~retry.outcomes[k]

(* C9: for max_retries >= 1 the operation is never attempted more than      *)
(* max_retries times; when every attempt fails the call ends raising the    *)
(* last attempt's exception after exactly max_retries attempts, with no     *)
(* backoff sleep after the last; a success ends the call at once.           *)
C9_RetryExhaustion ==
    retry.max_retries >= 1 =>
        /\ retry.calls <= retry.max_retries
        /\ retry.calls = Len(retry.outcomes)
        /\ RetryOver => retry.phase \in {"returned", "raised"}
        /\ retry.phase = "raised" =>
               /\ AllFailed
               /\ retry.calls = retry.max_retries
               /\ retry.result = [kind |-> "exc", n |-> retry.max_retries]
               /\ Len(retry.sleeps) = 2 * retry.max_retries - 1
               /\ retry.sleeps[Len(retry.sleeps)] = Rate
        /\ (AllFailed /\ retry.calls = retry.max_retries) =>
               retry.phase \in {"caught", "raised"}
        /\ ~AllFailed =>
               /\ retry.phase = "returned"
               /\ \A k \in 1..Len(retry.outcomes) : retry.outcomes[k] <=> k = retry.calls
               /\ retry.result = [kind |-> "value", n |-> retry.calls]

C9_Witness ==
    /\ retry.max_retries >= 2
    /\ retry.phase = "raised"

----------------------------------------------------------------------------

\* ids a retried id's renewed visit completed
RetriedOk == Range(cur.start.failed) \cap CompletedNow

(* C10 (as amended): when pull_failed_entities_only returns, every id that  *)
(* was in failed and whose renewed visit succeeded is in completed and not  *)
(* in failed; and every id that was in completed is untouched: not fetched, *)
(* still in completed, not in failed.                                       *)
C10_RetryOnlyFailed ==
    Returned("pull_failed_entities_only") =>
        /\ \A id \in RetriedOk : id \in state.completed /\ id \notin FailedIds
        /\ \A id \in cur.start.completed :
               /\ id \notin FetchedIds
               /\ id \in state.completed
               /\ id \notin FailedIds

(* C10 as claimed: the same, where every id that was not in failed before   *)
(* the call is untouched: not fetched, in completed and in failed as before.*)
C10_Claimed ==
    Returned("pull_failed_entities_only") =>
        /\ \A id \in RetriedOk : id \in state.completed /\ id \notin FailedIds
        /\ \A id \in Ids \ Range(cur.start.failed) :
               /\ id \notin FetchedIds
               /\ id \in state.completed <=> id \in cur.start.completed
               /\ id \notin FailedIds

\* a failed id was retried and completed while another id had been completed before
C10_Witness ==
    /\ Returned("pull_failed_entities_only")
    /\ RetriedOk # {}
    /\ cur.start.completed # {}

----------------------------------------------------------------------------

\* nothing raised in the method in progress (a failed download is not raised)
CleanRun == \A i \in LogIdx : log[i].ev # "download" => log[i].ok
AfterReset == prev.op = "reset_state" /\ prev.end = "returned"

(* C11: when reset_state has returned, completed and failed are empty in    *)
(* memory and in the state file; the pull_all that follows starts from the  *)
(* empty store and, when nothing fails, fetches every node that a crawl     *)
(* from an empty store fetches.                                             *)
C11_ResetSemantics ==
    /\ Returned("reset_state") => (state = EmptyState /\ file = Written(EmptyState))
    /\ (cur.op = "pull_all" /\ AfterReset) => cur.start = EmptyState
    /\ (Returned("pull_all") /\ AfterReset /\ CleanRun) =>
           FetchedIds = Uninterrupted.completed

\* the pull_all after a reset has fetched an id that was persisted as completed
\* before the reset
C11_Witness ==
    /\ cur.op = "pull_all" /\ AfterReset
    /\ Len(persisted) = 2
    /\ persisted[2].completed \cap FetchedIds # {}

----------------------------------------------------------------------------
(* PullState called directly (SpecStore).                                   *)

CallReturned(name) == store.pc = "ready" /\ store.last.name = name /\ ~store.last.raised
Before == store.last.before

(* C12: when mark_completed(id) returns, id is in completed and is no key   *)
(* of failed, the membership of every other id in completed and in failed   *)
(* is as before, and a second mark_completed(id) right after the first      *)
(* leaves memory and the state file as the first left them.                 *)
C12_MarkCompleted ==
    CallReturned("mark_completed") =>
        LET id == store.last.id
        IN  /\ id \in store.mem.completed
            /\ id \notin Range(store.mem.failed)
            /\ \A j \in Ids \ {id} :
                   /\ j \in store.mem.completed <=> j \in Before.completed
                   /\ j \in Range(store.mem.failed) <=> j \in Range(Before.failed)
            /\ store.last.twice => (store.mem = Before /\ store.doc = save_state(Before))

\* mark_completed was called twice in a row for one id while another id is in failed
C12_Witness ==
    /\ CallReturned("mark_completed")
    /\ store.last.twice
    /\ store.mem.failed # <<>>
    /\ store.mem.completed = {store.last.id}

(* C13: when reset_failed_entities returns, failed is empty and completed   *)
(* is its previous value less the ids that were keys of failed; the ids     *)
(* that were in completed and not in failed are still in completed.         *)
C13_ResetFailedEntities ==
    CallReturned("reset_failed_entities") =>
        /\ store.mem.failed = <<>>
        /\ store.mem.completed = Before.completed \ Range(Before.failed)
        /\ \A id \in Before.completed : id \notin Range(Before.failed) => id \in store.mem.completed
        /\ store.mem.metadata = Before.metadata

\* the call removed an id from completed and kept another
C13_Witness ==
    /\ CallReturned("reset_failed_entities")
    /\ Before.completed \cap Range(Before.failed) # {}
    /\ store.mem.completed # {}

Mutators == {"mark_completed", "mark_failed", "reset", "reset_failed_entities"}

(* C14: when mark_completed, mark_failed, reset or reset_failed_entities    *)
(* returns normally, a fresh PullState loaded from the state file has the   *)
(* completed set, the failed map and the metadata that are in memory.       *)
C14_WriteAfterMutate ==
    (store.pc = "ready" /\ store.last.name \in Mutators /\ ~store.last.raised) =>
        load_document(store.doc) = store.mem

\* a mutating call returned with something in each of the three attributes
C14_Witness ==
    /\ CallReturned("mark_failed")
    /\ store.mem.completed # {}
    /\ store.mem.metadata # {}
    /\ Len(store.mem.failed) > 1

\* the document is no state document: it cannot be read or parsed, is no JSON
\* object, or holds null where the array or an object belongs
Degraded(d) ==
    \/ d.kind \in {"unreadable", "not_json", "not_object"}
    \/ d.kind = "object" /\ "null" \in {d.completed.t, d.failed.t, d.metadata.t}

(* C15 as claimed: a PullState constructed over a state file that exists    *)
(* and is unreadable or no valid state document has empty completed, failed *)
(* and metadata.                                                            *)
C15_DegradedStart ==
    (store.pc = "ready" /\ store.last.name = "__init__" /\ Degraded(store.doc)) =>
        store.mem = Fresh

----------------------------------------------------------------------------

\* the calls of the method in progress that raised, and the ids they were made for
RaisedAt == {i \in LogIdx : log[i].ev # "download" /\ ~log[i].ok}
RaisedIds == {log[i].id : i \in RaisedAt}

\* ids that a listing hands to _pull_entity_recursive, and how often
Dispatched(w, p, which) ==
    LET items == Flatten(RemoteListing(w, p, which))
    IN  {k \in 1..Len(items) : Classify(which, Worlds[w][items[k]]) \in {"visit_block", "visit_database"}}
Dispatches(w, c) ==
    UNION {{<<p, which, k>> : k \in {n \in Dispatched(w, p, which) :
                                        Flatten(RemoteListing(w, p, which))[n] = c}} :
           p \in Ids, which \in {"block", "database"}}
Trees == {w \in DOMAIN Worlds : \A c \in Ids : Cardinality(Dispatches(w, c)) <= 1}
IsTree(w) == w \in Trees

(* C16: whatever remote calls and snapshot writes fail, at the root or      *)
(* below it, pull_all does not raise: it returns, and every node whose      *)
(* processing raised is then in failed (in a graph that lists a node twice, *)
(* unless a later visit of that node completed it).                         *)
C16_NeverRaises ==
    /\ cur.op = "pull_all" => cur.end \in {"running", "returned", "interrupted"}
    /\ Returned("pull_all") =>
           /\ \A i \in RaisedAt :
                  \/ log[i].id \in FailedIds
                  \/ \E j \in Events({"completed"}) : j > i /\ log[j].id = log[i].id
           /\ IsTree(world) => RaisedIds \subseteq FailedIds

\* pull_all returned after a failed snapshot write and a failed remote call at two nodes
C16_Witness ==
    /\ Returned("pull_all")
    /\ Cardinality(RaisedIds) = 2
    /\ \E i \in RaisedAt : log[i].ev = "write"
    /\ \E i \in RaisedAt : log[i].ev \in {"fetch", "list"}
    /\ IsTree(world)

RootFetchFailed == \E i \in RaisedAt : log[i].ev = "fetch" /\ log[i].id = Root

(* C17 as claimed: a pull_all in which the fetch of the root failed raises  *)
(* to its caller; it does not return normally.                              *)
C17_RootFailureRaises ==
    (cur.op = "pull_all" /\ RootFetchFailed /\ op = "idle" /\ cur.end # "interrupted") =>
        cur.end = "raised"

----------------------------------------------------------------------------

\* the root and every id some listing of a visited node hands to
\* _pull_entity_recursive: what a crawl visits when nothing fails
RECURSIVE Descend(_)
Descend(seen) ==
    LET more == {c \in Ids : \E d \in Dispatches(world, c) : d[1] \in seen}
    IN  IF more \subseteq seen THEN seen ELSE Descend(seen \cup more)
Visitable == Descend({Root})

\* a block the download rule takes: an attachment sub-type without block children
IsAttachment(id) ==
    /\ Worlds[world][id].type \in FileAttachmentType
    /\ ~Worlds[world][id].has_children
IsChildlessLeaf(id) ==
    /\ ~Worlds[world][id].has_children
    /\ Worlds[world][id].type \notin {"child_page", "child_database"} \cup FileAttachmentType

(* C18: when a pull_all from an empty store returns and nothing failed,     *)
(* completed is the root with every descendant handed on for recursion      *)
(* (child pages, child databases, blocks with children, database rows) and  *)
(* failed is empty; attachments and childless leaf blocks below the root    *)
(* are in neither.  For root B with child page P and attachment F,          *)
(* completed is {B, P}.                                                     *)
C18_AllSuccess ==
    (Returned("pull_all") /\ cur.start = EmptyState /\ CleanRun) =>
        /\ state.completed = Visitable
        /\ state.completed = VisitedIds
        /\ state.failed = <<>>
        /\ \A id \in Ids \ {Root} :
               (IsAttachment(id) \/ IsChildlessLeaf(id)) => id \notin state.completed
        /\ world = 1 => state.completed = {1, 2}

\* the crawl of B, P and F returned with the attachment downloaded
C18_Witness ==
    /\ Returned("pull_all") /\ cur.start = EmptyState /\ CleanRun
    /\ world = 1
    /\ downloads # {}

----------------------------------------------------------------------------

\* ids _pull_entity_recursive was called for in the method in progress
CalledIds == {log[i].id : i \in Events({"fetch", "skip"})}

(* C19: a pull_all that is not interrupted, over a finite workspace whose   *)
(* remote calls each return or raise, eventually returns; and when it has   *)
(* returned no visit is in progress and every visited node is in exactly    *)
(* one of completed and failed.                                             *)
C19_Completes ==
    /\ (op = "pull_all") ~> Returned("pull_all")
    /\ [](Returned("pull_all") =>
            /\ stack = <<>> /\ ~saving
            /\ \A id \in CalledIds : (id \in state.completed) # (id \in FailedIds))

\* a crawl with failures at two nodes has returned, with nodes in each of the sets
C19_Witness ==
    /\ Returned("pull_all")
    /\ Cardinality(RaisedIds) = 2
    /\ CalledIds \cap state.completed # {}
    /\ CalledIds \cap FailedIds # {}

----------------------------------------------------------------------------

\* the snapshot of the whole listing `which` of id is on disk under path
ChildrenWritten(path, id, which) ==
    \E f \in files :
        /\ f.path = path /\ f.id = id /\ f.kind = which /\ f.dtype = "children"
        /\ f.has_more = FALSE
        /\ f.results = Items(id, which)

\* _pull_children: the listings a node visited as kind must have paginated
RequiredListings(kind, id) ==
    IF kind = "database" THEN {"database"}
    ELSE IF Worlds[world][id].type = "child_database" THEN {"database", "block"}
    ELSE {"block"}

(* C20: an id in completed has its "main" snapshot on disk and, beside it,  *)
(* the "children" snapshot of every listing its kind requires, each the     *)
(* whole listing with has_more false: block children for a block, the rows  *)
(* as well when it carries a child database, the rows for a database.       *)
C20_CompletedHasSnapshots ==
    \A id \in state.completed :
        \E f \in files :
            /\ f.id = id /\ f.dtype = "main"
            /\ \A which \in RequiredListings(f.kind, id) : ChildrenWritten(f.path, id, which)

\* a node is completed while a child it handed on for recursion is in failed
C20_Witness ==
    \E id \in state.completed : \E c \in FailedIds :
        /\ c \in Listed(id)
        /\ Dispatches(world, c) # {}

----------------------------------------------------------------------------
(* The order of the events of one visit, read off the log and the stack.   *)

\* the last get_block / get_database issued for id before position j of the log
FetchBefore(id, j) ==
    LET s == {i \in Events({"fetch"}) : log[i].id = id /\ i < j}
    IN  IF s = {} THEN 0 ELSE CHOOSE i \in s : \A k \in s : k <= i
LastFetch(id) == FetchBefore(id, Len(log) + 1)

WriteOk(id, kind, dtype) == Event("write", id, kind, dtype, 0, TRUE)
Marks == {"completed", "failed"}

\* the frame at depth k dispatched the frame above it: its "main" snapshot and the
\* "children" snapshot that lists the child were written, in this visit, before
\* the child's first remote call
SnapshotsBeforeChild(k) ==
    LET p == stack[k]
        c == stack[k - 1]
        s == LastFetch(p.id)
    IN  /\ s > 0
        /\ p.pc = "loop"
        /\ \E i \in LogIdx : \E j \in LogIdx :
               /\ s < i /\ i < j
               /\ log[i] = WriteOk(p.id, p.kind, "main")
               /\ log[j] = WriteOk(p.id, p.listing, "children")
               /\ c.pc # "enter" => j < LastFetch(c.id)
        /\ \E f \in files :
               /\ f.path = p.path /\ f.id = p.id /\ f.kind = p.listing /\ f.dtype = "children"
               /\ c.id \in Range(f.results)

\* the visit that ended with the mark at position j: every visit begun inside it
\* ended inside it, and a completed node had dispatched every child its listings
\* hand on for recursion
ChildrenReturned(j) ==
    LET n == log[j].id
        s == FetchBefore(n, j)
        inside == (s + 1)..(j - 1)
    IN  /\ s > 0
        /\ \A m \in inside :
               log[m].ev = "fetch" =>
                   \E e \in inside : e > m /\ log[e].ev \in Marks /\ log[e].id = log[m].id
        /\ log[j].ev = "completed" =>
               \A which \in RequiredListings(log[j].kind, n) :
                   \A d \in Dispatched(world, n, which) :
                       \E m \in inside : /\ log[m].ev \in {"fetch", "skip"}
                                         /\ log[m].id = Items(n, which)[d]

(* C21: whenever a visit of node n has dispatched the visit of a child c,   *)
(* the "main" snapshot of n and the "children" snapshot of n that lists c   *)
(* were written before the first remote call of that visit of c; and n is   *)
(* marked completed or failed only after every visit it dispatched has      *)
(* returned: no visit in progress has its node marked, and every visit      *)
(* begun inside a marked visit ended before the mark.                       *)
C21_SnapshotBeforeRecursion ==
    /\ \A k \in 2..Len(stack) : SnapshotsBeforeChild(k)
    /\ \A k \in 1..Len(stack) :
           stack[k].pc # "enter" =>
               \A j \in Events(Marks) : log[j].id = stack[k].id => j < LastFetch(stack[k].id)
    /\ \A j \in Events(Marks) : ChildrenReturned(j)

\* a node two levels below the root was visited and failed, and the node that
\* dispatched it was marked completed afterwards, its own parent still in progress
C21_Witness ==
    /\ Len(stack) = 1
    /\ \E j \in Events({"completed"}) :
           \E m \in (FetchBefore(log[j].id, j) + 1)..(j - 1) : log[m].ev = "failed"

----------------------------------------------------------------------------

\* positions of the log after which id was put in failed by the method in progress
FailedAt(id) == {j \in Events({"failed"}) : log[j].id = id}

(* C22 as claimed: once an id is in failed it is not fetched again and does  *)
(* not leave failed, neither later in the same method call nor in a later   *)
(* pull_all, also when the id is listed more than once; only                *)
(* reset_failed_entities, pull_failed_entities_only and reset_state let it  *)
(* be attempted again.                                                      *)
C22_FailedTerminal ==
    /\ \A id \in Ids : \A j \in FailedAt(id) :
           /\ \A i \in Events({"fetch", "get_page", "completed"}) : i > j => log[i].id # id
           /\ id \in FailedIds
    /\ cur.op = "pull_all" =>
           /\ FetchedIds \cap Range(cur.start.failed) = {}
           /\ Range(cur.start.failed) \subseteq FailedIds

----------------------------------------------------------------------------

\* the for loop of _pull_block_children takes up the next listed child
BlockChildStep == InLoop /\ Top.listing = "block" /\ op' # "idle"

Visits(kind) ==
    /\ stack' = <<Frame(Child, kind, EntityDir(Top))>> \o SetTop(Advance)
    /\ UNCHANGED <<state, log, files, downloads>>
\* the download is tried, in the directory of the parent; no visit begins
Downloads ==
    /\ stack' = SetTop(Advance)
    /\ \E ok \in BOOLEAN : log' = Append(log, Event("download", Child, "block", "none", 0, ok))
    /\ downloads' \in {downloads, downloads \cup {[path |-> EntityDir(Top), id |-> Child]}}
    /\ UNCHANGED <<state, files>>
Passes ==
    /\ stack' = SetTop(Advance)
    /\ UNCHANGED <<state, log, files, downloads>>

\* ids that every block-children listing naming them passes over or downloads,
\* and that no rows listing names
NeverDispatched ==
    {c \in Ids \ {Root} : Dispatches(world, c) = {}}

(* C23: each child of a block-children listing is handled by exactly one    *)
(* rule, the first that applies: child_page, visited as a block;            *)
(* child_database, visited as a database; any other child with              *)
(* has_children, visited as a block; file, image, video, audio or pdf       *)
(* without children, downloaded and not visited; anything else, neither.    *)
(* A child that is never handed on for a visit is never called for and is   *)
(* never in completed or failed.                                           *)
C23_ChildDispatch ==
    /\ [][BlockChildStep =>
            LET c == Worlds[world][Child]
            IN  IF c.type = "child_page" THEN Visits("block")
                ELSE IF c.type = "child_database" THEN Visits("database")
                ELSE IF c.has_children THEN Visits("block")
                ELSE IF c.type \in {"file", "image", "video", "audio", "pdf"} THEN Downloads
                ELSE Passes]_vars
    /\ [](\A c \in NeverDispatched :
               /\ c \notin CalledIds
               /\ c \notin state.completed
               /\ c \notin FailedIds)

\* a crawl has met a child database with block children (visited as a database),
\* a file block with block children (visited as a block) and an image without
\* (downloaded, in neither set)
C23_Witness ==
    /\ Returned("pull_all")
    /\ \E i \in Events({"fetch"}) :
           /\ log[i].kind = "database"
           /\ Worlds[world][log[i].id].has_children
    /\ \E i \in Events({"fetch"}) :
           /\ log[i].kind = "block"
           /\ Worlds[world][log[i].id].type = "file"
    /\ \E i \in Events({"download"}) :
           /\ log[i].id \notin state.completed \cup FailedIds
           /\ log[i].id \in NeverDispatched

----------------------------------------------------------------------------

\* the directories the mirrored layout gives a node: the raw directory for the
\* root, and below the directory of a node that hands it on for recursion the
\* segment <listing kind>_<id of that node>
RECURSIVE PathsTo(_)
PathsTo(id) ==
    (IF id = Root THEN {<<>>} ELSE {})
        \cup UNION {{Append(path, <<d[2], d[1]>>) : path \in PathsTo(d[1])} :
                    d \in Dispatches(world, id)}

(* C24 as claimed: every snapshot of a node is in the directory made of the *)
(* raw directory and one <kind>_<id> segment per container ancestor on a    *)
(* path from the root to the node, whichever method wrote it, pull_all or   *)
(* pull_failed_entities_only.                                               *)
C24_MirroredLayout ==
    \A f \in files : f.path \in PathsTo(f.id)

----------------------------------------------------------------------------
(* SpecRetryFailed: a process started with --retry-failed, which may be     *)
(* interrupted and started again.                                           *)

\* the progress stores a pull_all can leave behind: each visit ends in failed before
\* it hands on any child, or hands on its children in turn and ends in completed
RECURSIVE VisitOutcomes(_, _, _), ChildrenOutcomes(_, _, _)
VisitOutcomes(id, kind, st) ==
    IF is_completed(st, id) THEN {st}
    ELSE LET first == IF kind = "database" \/ Worlds[world][id].type = "child_database"
                      THEN "database" ELSE "block"
             a == ChildrenOutcomes(Items(id, first), first, {st})
             b == IF kind = "block" /\ first = "database"
                  THEN ChildrenOutcomes(Items(id, "block"), "block", a) ELSE a
         IN  {mark_failed(st, id)} \cup {mark_completed(s, id) : s \in b}
ChildrenOutcomes(items, which, sts) ==
    IF items = <<>> THEN sts
    ELSE LET rule == Classify(which, Worlds[world][Head(items)])
             next == IF rule = "visit_block"
                     THEN UNION {VisitOutcomes(Head(items), "block", s) : s \in sts}
                     ELSE IF rule = "visit_database"
                          THEN UNION {VisitOutcomes(Head(items), "database", s) : s \in sts}
                          ELSE sts
         IN  ChildrenOutcomes(Tail(items), which, next)

\* a process started with --retry-failed finds what an earlier pull_all left
StoresLeft == VisitOutcomes(Root, "block", EmptyState)

InitRetryFailed ==
    /\ world \in DOMAIN Worlds
    /\ state \in StoresLeft
    /\ file = Written(state)
    /\ persisted = <<state>>
    /\ saving = FALSE
    /\ stack = <<>>
    /\ queue = <<>>
    /\ op = "idle"
    /\ log = <<>>
    /\ files = {}      \* the snapshots under raw/ are written, never read
    /\ downloads = {}
    /\ returned = NoneReturned
    /\ cur = [op |-> "none", end |-> "none", start |-> state, final |-> state]
    /\ prev = [op |-> "none", end |-> "none", final |-> state]
    /\ budget = [ops |-> 0, faults |-> 0]
    /\ retry = RetryIdle
    /\ store = StoreIdle
    /\ writers = WritersIdle

NextRetryFailed ==
    \/ pull_failed_entities_only
    \/ RetryNext
    \/ CrawlStep
    \/ Interrupt

SpecRetryFailed == InitRetryFailed /\ [][NextRetryFailed]_vars

\* pull_failed_entities_only in progress or returned (not interrupted)

RetryingFailed == cur.op = "pull_failed_entities_only" /\ cur.end \in {"running", "returned"}
WereFailed == cur.start.failed
\* how many of the ids that were in failed the for loop has taken up
TakenUp == Len(WereFailed) - Len(queue)
\* the ids whose renewed visit has returned
Retried == {WereFailed[k] : k \in 1..(TakenUp - IF stack = <<>> THEN 0 ELSE 1)}

(* C25: pull_failed_entities_only first empties failed with                 *)
(* reset_failed_entities, then visits the ids that were in failed, in their *)
(* order, each as a block under the raw directory; a visit that fails does  *)
(* not keep the ids after it from being visited; every id whose visit has   *)
(* returned, and so at the return of the call every id that was in failed,  *)
(* is in exactly one of completed and failed.  With failed empty at the     *)
(* start the call makes no remote call and changes nothing.                 *)
RetryIsolation ==
    RetryingFailed =>
        /\ (WereFailed # <<>> /\ TakenUp = 0) => state = reset_failed_entities(cur.start)
        /\ queue = SubSeq(WereFailed, TakenUp + 1, Len(WereFailed))
        /\ stack # <<>> =>
               /\ TakenUp > 0
               /\ stack[Len(stack)] =
                      [Frame(WereFailed[TakenUp], "block", <<>>) EXCEPT
                           !.pc = stack[Len(stack)].pc, !.mtype = stack[Len(stack)].mtype,
                           !.listing = stack[Len(stack)].listing, !.acc = stack[Len(stack)].acc,
                           !.cursor = stack[Len(stack)].cursor, !.idx = stack[Len(stack)].idx]
        /\ \A id \in Retried :
               /\ (id \in state.completed) # (id \in FailedIds)
               /\ \E i \in Events({"fetch", "skip"}) : log[i].id = id /\ log[i].kind = "block"
        /\ Returned("pull_failed_entities_only") => Retried = Range(WereFailed)

\* a step of a call that began with failed empty
NothingToRetry == op = "pull_failed_entities_only" /\ WereFailed = <<>> /\ cur'.end # "interrupted"

C25_RetryIsolation ==
    /\ []RetryIsolation
    /\ [][NothingToRetry =>
            /\ op' = "idle"
            /\ UNCHANGED <<state, file, saving, log, files, downloads, stack, queue>>]_vars

\* the call has returned after the visit of the first of two failed ids failed
\* again and the visit of the second completed
C25_Witness ==
    /\ Returned("pull_failed_entities_only")
    /\ Len(WereFailed) = 2
    /\ \E i \in Events({"failed"}) : \E j \in Events({"completed"}) :
           /\ i < j
           /\ log[i].id = WereFailed[1]
           /\ log[j].id = WereFailed[2]
    /\ WereFailed[1] \in FailedIds
    /\ WereFailed[2] \in state.completed

----------------------------------------------------------------------------

\* the attachment downloads of the method in progress that failed
FailedDownloads == {i \in Events({"download"}) : ~log[i].ok}

\* the visit in progress at position i of the log: the last fetch before i whose
\* node was not marked before i
Enclosing(i) ==
    LET open == {j \in 1..(i - 1) :
                    /\ log[j].ev = "fetch" /\ log[j].ok
                    /\ \A e \in (j + 1)..(i - 1) :
                           ~(log[e].ev \in Marks /\ log[e].id = log[j].id)}
    IN  CHOOSE j \in open : \A k \in open : k <= j

\* every item of the block-children listing of the visit begun at position j was
\* taken up after position i: visited or skipped, or its download tried
SiblingsProcessed(j, i) ==
    LET items == Items(log[j].id, "block")
    IN  \A n \in 1..Len(items) :
            LET rule == Classify("block", Worlds[world][items[n]])
            IN  /\ rule \in {"visit_block", "visit_database"} =>
                       \E e \in Events({"fetch", "skip"}) : e > j /\ log[e].id = items[n]
                /\ rule = "download" =>
                       \E e \in Events({"download"}) : e > j /\ log[e].id = items[n]

(* C26: a failed attachment download changes neither completed nor failed   *)
(* nor the state file and the loop goes on to the next child; and when the  *)
(* crawl has returned, a parent none of whose own calls and writes raised   *)
(* is in completed, with every sibling of the attachment taken up.          *)
C26_AttachmentFailure ==
    /\ [][(log' # log /\ Len(log') > 0 /\ log'[Len(log')].ev = "download"
              /\ ~log'[Len(log')].ok) =>
            /\ UNCHANGED <<state, file, saving, files, downloads>>
            /\ stack' = SetTop(Advance)]_vars
    /\ [](Returned("pull_all") =>
            \A i \in FailedDownloads :
                LET j == Enclosing(i)
                IN  log[j].id \notin RaisedIds =>
                        /\ log[j].id \in state.completed
                        /\ log[j].id \notin FailedIds
                        /\ log[i].id \notin state.completed \cup FailedIds
                        /\ SiblingsProcessed(j, i))

\* a crawl returned in which the download of the first child failed, a later
\* sibling was visited and the parent is completed
C26_Witness ==
    /\ Returned("pull_all")
    /\ \E i \in FailedDownloads :
           /\ log[Enclosing(i)].id \in state.completed
           /\ \E e \in Events({"fetch"}) : e > i /\ Enclosing(e) = Enclosing(i)

----------------------------------------------------------------------------

\* the page fetches of the method in progress that raised
FailedPages == {i \in Events({"list"}) : ~log[i].ok}
\* the pages the loop had fetched before the fetch at cursor n
PagesBefore(n) == IF n = 0 THEN 0 ELSE n - 1

\* the loop whose page fetch at position i raised: before it only the fetches of
\* the earlier pages, and right after it the mark of the node as failed
LoopAbandoned(i) ==
    LET e == log[i]
        k == PagesBefore(e.n)
    IN  /\ i > k
        /\ \A m \in 1..k :
               log[i - k + m - 1] = ListCall(e.id, e.kind, IF m = 1 THEN 0 ELSE m)
        /\ i < Len(log) =>
               /\ log[i + 1].ev = "failed" /\ log[i + 1].id = e.id
               /\ i + 1 = Len(log) => (e.id \in FailedIds /\ e.id \notin state.completed)

\* no snapshot of that listing was written in this crawl, before the loop or after
NotWritten(i) ==
    \A m \in Events({"write"}) :
        ~(log[m].dtype = "children" /\ log[m].id = log[i].id /\ log[m].kind = log[i].kind)

(* C27: when a page fetch of a pagination loop raises, the loop has written *)
(* no "children" snapshot and has visited or downloaded none of the items   *)
(* of the pages before, and the node is marked failed at once, not          *)
(* completed; a listing no loop finished has no snapshot on disk; and every *)
(* "children" snapshot on disk holds the whole listing with has_more false. *)
C27_NoPartialListing ==
    /\ \A i \in FailedPages :
           /\ LoopAbandoned(i)
           /\ (budget.ops = 1 /\ NotWritten(i)) =>
                  \A f \in files :
                      ~(f.dtype = "children" /\ f.id = log[i].id /\ f.kind = log[i].kind)
    /\ \A f \in files :
           f.dtype = "children" => (f.has_more = FALSE /\ f.results = Items(f.id, f.kind))

\* the fetch of the third page of a listing raised after two pages of items; the
\* node is in failed, none of the items was visited, no snapshot of it is on disk
C27_Witness ==
    \E i \in FailedPages :
        /\ PagesBefore(log[i].n) = 2
        /\ i + 1 = Len(log)
        /\ log[i].id \in FailedIds
        /\ budget.ops = 1
        /\ Range(Items(log[i].id, log[i].kind)) \cap CalledIds = {}
        /\ \A f \in files : f.dtype = "children" => f.id # log[i].id

----------------------------------------------------------------------------
(* Two PullState objects over one state file (SpecWriters).                 *)

\* the state file is a whole document and i is the object that wrote it last
WroteLast(i) ==
    /\ writers.file.status = "ok"
    /\ writers.last = i
    /\ writers.pc[i] = "ready"

(* C28: without a lock the state file is not the union of what two crawler  *)
(* processes marked.  An object's completed set is what it loaded when it   *)
(* was constructed and what it marked itself; the file, once an object has  *)
(* written it, is that object's memory, so an id the other object marked    *)
(* and persisted is in the file only if the writer loaded or marked it too. *)
C28_LostUpdate ==
    \A i \in Writers :
        /\ writers.mem[i].completed = writers.loaded[i] \cup writers.own[i]
        /\ WroteLast(i) =>
               /\ writers.file.data = writers.mem[i]
               /\ \A j \in Writers \ {i} : \A id \in writers.kept[j] :
                      id \in writers.file.data.completed
                          <=> id \in writers.loaded[i] \cup writers.own[i]

\* the lost update: an id one process marked completed and persisted is absent
\* from the file the other process wrote afterwards
C28_Witness ==
    \E i \in Writers : \E j \in Writers \ {i} : \E id \in writers.kept[j] :
        /\ WroteLast(i)
        /\ writers.pc[j] = "ready"
        /\ id \notin writers.file.data.completed
        /\ writers.kept[i] # {}

----------------------------------------------------------------------------

(* C29 as claimed: for every max_retries, zero and negative included, a     *)
(* call of _retry_with_backoff that is over has returned the result of an   *)
(* attempt that succeeded, or has raised; it has not returned a value       *)
(* without a successful attempt.                                            *)
C29_NoReturnWithoutSuccess ==
    RetryOver =>
        \/ /\ retry.phase = "returned"
           /\ retry.calls >= 1
           /\ retry.outcomes[retry.calls]
           /\ retry.result = [kind |-> "value", n |-> retry.calls]
        \/ retry.phase = "raised"

----------------------------------------------------------------------------

\* pull_failed_entities_only was interrupted and the next process has loaded the
\* state file, which is a whole document (no save_state was cut short)
RetryInterrupted ==
    /\ cur.op = "pull_failed_entities_only"
    /\ cur.end = "interrupted"
    /\ op = "idle"
    /\ file.status = "ok"

\* the ids that were in failed when the call began and are in neither set now
Forgotten == {id \in Range(cur.start.failed) : id \notin state.completed \cup FailedIds}

(* C30 as claimed: after an interrupt of pull_failed_entities_only the      *)
(* persisted state has every id that was in failed at the start of the call *)
(* in failed or in completed, but for at most the one id whose visit was in *)
(* progress.                                                                *)
C30_NoFailureLost ==
    RetryInterrupted => Cardinality(Forgotten) <= 1

=============================================================================
